---------------------------- MODULE Spec2Model ----------------------------
(***************************************************************************)
(* Model of src/generate_script.py: the script schema and its validator    *)
(* (generate_model_with_context_check), the link normalizer (adjust_links, *)
(* replace_keys_with_values) and the generation pipeline (process_script,  *)
(* _process_script_openrouter).                                            *)
(*                                                                         *)
(* A Python str is modelled as a sequence of one-character strings, so     *)
(* that strip, split, replace, `in` and the regular-expression scan are    *)
(* computed character by character, the way the code computes them.        *)
(***************************************************************************)
EXTENDS Integers, Sequences, FiniteSets, TLC

VARIABLES
    pc,         \* position of the modelled caller
    values,     \* the candidate handed to validate_script_structure
    paper_id,   \* the expected id captured by generate_model_with_context_check
    vres,       \* what validate_script_structure did with the candidate
    text,       \* replace_keys_with_values: the input text
    dict_list,  \* replace_keys_with_values: the list of {key: value} dicts
    modified_text,  \* replace_keys_with_values: the returned text
    text_md,    \* adjust_links: the document
    output,     \* adjust_links(text_md, paper_id)
    output2,    \* adjust_links(output, paper_id)
    args,       \* process_script: method, paper_markdown, paper_id, from_pdf
    api_key,    \* whether OPENROUTER_API_KEY is set in the environment
    paper,      \* the text handed to _process_script_openrouter
    state,      \* create_logging_hooks: the hooks' state dict
    calls,      \* backend requests issued by create_with_completion
    failures,   \* the failed attempts of the call, in order
    result,     \* <<text>> once process_script has returned, else <<>>
    error,      \* <<exception>> once process_script has raised, else <<>>
    models,     \* concurrent runs: the ArxflixScript classes created so far
    states,     \* concurrent runs: the hooks' state dicts created so far
    runs        \* concurrent runs: the locals of each process_script call

vValidator == <<values, paper_id, vres>>
vReplace == <<text, dict_list, modified_text>>
vLinks == <<text_md, output, output2>>
vPipeline == <<args, api_key, paper, state, calls, failures, result, error>>

vRuns == <<models, states, runs>>

vars == <<pc, vValidator, vReplace, vLinks, vPipeline, vRuns>>

\* a variable the specification at hand does not use
Unused == <<>>

IdleValidator == values = Unused /\ paper_id = Unused /\ vres = Unused

IdleReplace == text = Unused /\ dict_list = Unused /\ modified_text = Unused

IdleLinks == text_md = Unused /\ output = Unused /\ output2 = Unused

IdleRuns == models = Unused /\ states = Unused /\ runs = Unused

IdlePipeline ==
    /\ args = Unused /\ api_key = Unused /\ paper = Unused /\ state = Unused
    /\ calls = Unused /\ failures = Unused /\ result = Unused /\ error = Unused

---------------------------------------------------------------------------
(* Python str primitives                                                   *)

Min(S) == CHOOSE x \in S : \A y \in S : x <= y
Max(S) == CHOOSE x \in S : \A y \in S : x >= y

\* str.strip() removes leading and trailing whitespace characters
Whitespace == {" ", "\t", "\n", "\r"}

Strip(s) ==
    LET keep == {i \in 1..Len(s) : s[i] \notin Whitespace}
    IN  IF keep = {} THEN <<>> ELSE SubSeq(s, Min(keep), Max(keep))

\* p occurs in s starting at index i (1-based)
MatchAt(s, p, i) ==
    /\ i >= 1
    /\ i + Len(p) - 1 <= Len(s)
    /\ \A j \in 1..Len(p) : s[i + j - 1] = p[j]

\* Python: p in s
Contains(s, p) == \E i \in 1..(Len(s) + 1) : MatchAt(s, p, i)

\* Python: s.replace(old, new), old non-empty: every non-overlapping
\* occurrence, left to right (the text up to the next occurrence is copied)
RECURSIVE ReplaceFrom(_, _, _, _)
ReplaceFrom(s, old, new, i) ==
    LET occ == {j \in i..Len(s) : MatchAt(s, old, j)}
    IN  IF occ = {} THEN SubSeq(s, i, Len(s))
        ELSE SubSeq(s, i, Min(occ) - 1) \o new
                 \o ReplaceFrom(s, old, new, Min(occ) + Len(old))

Replace(s, old, new) == ReplaceFrom(s, old, new, 1)

\* Python: s.split('\n')
RECURSIVE SplitFrom(_, _)
SplitFrom(s, i) ==
    LET nl == {j \in i..Len(s) : s[j] = "\n"}
    IN  IF nl = {} THEN <<SubSeq(s, i, Len(s))>>
        ELSE <<SubSeq(s, i, Min(nl) - 1)>> \o SplitFrom(s, Min(nl) + 1)

SplitLines(s) == SplitFrom(s, 1)

\* Python: sep.join(parts)
RECURSIVE Join(_, _)
Join(parts, sep) ==
    IF parts = <<>> THEN <<>>
    ELSE IF Len(parts) = 1 THEN parts[1]
    ELSE parts[1] \o sep \o Join(Tail(parts), sep)

Range(f) == {f[i] : i \in DOMAIN f}

---------------------------------------------------------------------------
(* The schema: ScriptComponentType, ScriptComponent, ArxflixScript         *)

HEADLINE == <<"H", "e", "a", "d", "l", "i", "n", "e">>
TEXT == <<"T", "e", "x", "t">>

\* the sentinel expected id: the literal "paper_id"
SentinelId == <<"p", "a", "p", "e", "r", "_", "i", "d">>


\* ScriptComponent(component_type: str, content: str, position: int)
ScriptComponent(t, c, p) == [component_type |-> t, content |-> c, position |-> p]

\* ArxflixScript(title, paper_id, target_duration_minutes, components)
ArxflixScript(title, id, minutes, comps) ==
    [title |-> title, paper_id |-> id,
     target_duration_minutes |-> minutes, components |-> comps]

\* the ValueError messages of validate_script_structure; arg is what the
\* f-string interpolates (<<>> when the message is a plain literal)
ErrEmpty ==
    [msg |-> "Script must contain at least one component", arg |-> <<>>]

ErrPaperId(id) ==
    [msg |-> "The paper id is {paper_id}, you wrote a wrong one, correct it everywhere",
     arg |-> id]

ErrPositions ==
    [msg |-> "Component positions must be consecutive integers starting from 0",
     arg |-> <<>>]

ErrStart ==
    [msg |-> "Script must start with a Headline component", arg |-> <<>>]

ErrConsecutive(t) ==
    [msg |-> "Consecutive {component_type} components are not allowed", arg |-> t]

ErrKind(t) ==
    [msg |-> "{component_type} is not a valid component_type", arg |-> t]

---------------------------------------------------------------------------
(* validate_script_structure                                               *)

\* sorted(components, key=lambda x: x.position): stable, ascending
RECURSIVE InsertByPosition(_, _)
InsertByPosition(x, s) ==
    IF s = <<>> THEN <<x>>
    ELSE IF s[Len(s)].position <= x.position THEN Append(s, x)
    ELSE Append(InsertByPosition(x, SubSeq(s, 1, Len(s) - 1)), s[Len(s)])

RECURSIVE SortedFrom(_, _, _)
SortedFrom(comps, i, acc) ==
    IF i > Len(comps) THEN acc
    ELSE SortedFrom(comps, i + 1, InsertByPosition(comps[i], acc))

Unsorted(comps) == comps

Sorted(comps) == SortedFrom(comps, 1, <<>>)

\* paper_id != "paper_id" and values.paper_id != paper_id
PaperIdMismatchNoSentinel(v, id) == v.paper_id # id

PaperIdMismatch(v, id) == id # SentinelId /\ v.paper_id # id

\* positions != list(range(len(positions)))
PositionErrors(sorted_components) ==
    IF [i \in 1..Len(sorted_components) |-> sorted_components[i].position]
         # [i \in 1..Len(sorted_components) |-> i - 1]
    THEN <<ErrPositions>>
    ELSE <<>>

\* sorted_components[0].component_type.strip() != ScriptComponentType.HEADLINE
StartErrorsExact(sorted_components) ==
    IF sorted_components[1].component_type # HEADLINE
    THEN <<ErrStart>>
    ELSE <<>>

StartErrors(sorted_components) ==
    IF Strip(sorted_components[1].component_type) # HEADLINE
    THEN <<ErrStart>>
    ELSE <<>>

\* for i in range(1, len(sorted_components)): same stripped kind as the
\* previous component, and that kind is not Text
RECURSIVE ConsecutiveFrom(_, _)
ConsecutiveFrom(sc, i) ==
    IF i > Len(sc) THEN <<>>
    ELSE (IF /\ Strip(sc[i].component_type) = Strip(sc[i - 1].component_type)
             /\ Strip(sc[i].component_type) # TEXT
          THEN <<ErrConsecutive(Strip(sc[i].component_type))>>
          ELSE <<>>)
         \o ConsecutiveFrom(sc, i + 1)

NoConsecutiveCheck(sorted_components) == <<>>

ConsecutiveErrors(sorted_components) == ConsecutiveFrom(sorted_components, 2)

\* for comp in values.components: stripped kind not in ["Text", "Headline"]
RECURSIVE KindErrorsFrom(_, _)
KindErrorsFrom(comps, i) ==
    IF i > Len(comps) THEN <<>>
    ELSE (IF Strip(comps[i].component_type) \notin {TEXT, HEADLINE}
          THEN <<ErrKind(Strip(comps[i].component_type))>>
          ELSE <<>>)
         \o KindErrorsFrom(comps, i + 1)

KindErrors(comps) == KindErrorsFrom(comps, 1)

\* the candidate has not been validated yet
NotRun == [raised |-> "not run", errors |-> <<>>, components |-> <<>>]

\* the end of the validator: the kind loop, then raise ValueError(errors) or
\* return values (whose components are comps)
Finish(errors, comps) ==
    LET all == errors \o KindErrors(comps)
    IN  IF all # <<>>
        THEN [raised |-> "ValueError", errors |-> all, components |-> comps]
        ELSE [raised |-> "none", errors |-> <<>>, components |-> comps]

\* The model validator of ArxflixScript, with the expected id of the closure.
\* raised is "none" (values returned), "ValueError" (raise ValueError(errors),
\* which pydantic turns into a ValidationError) or "IndexError"
\* (sorted_components[0] on an empty list, which pydantic does not catch).
validate_script_structure(v, id) ==
    LET components == v.components
        errors1 == IF components = <<>> THEN <<ErrEmpty>> ELSE <<>>
    IN  IF PaperIdMismatch(v, id)
        THEN Finish(errors1 \o <<ErrPaperId(id)>>, components)
        ELSE LET sorted_components == Sorted(components)
                 errors2 == errors1 \o PositionErrors(sorted_components)
             IN  IF sorted_components = <<>>
                 THEN [raised |-> "IndexError", errors |-> <<>>,
                       components |-> components]
                 ELSE Finish(errors2 \o StartErrors(sorted_components)
                                     \o ConsecutiveErrors(sorted_components),
                             sorted_components)

---------------------------------------------------------------------------
(* Candidates the backend may hand to the validator                        *)

MaxComps == 3

PaperX == <<"X">>
PaperY == <<"Y">>

PaddedHeadline == <<" ">> \o HEADLINE \o <<" ">>
FIGURE == <<"F", "i", "g", "u", "r", "e">>

Kinds == {HEADLINE, TEXT, PaddedHeadline, FIGURE}
Positions == 0..(MaxComps - 1)
Contents == {<<"a">>}
Titles == {<<"t">>}
CandidateIds == {PaperX, PaperY}
ExpectedIds == {SentinelId, PaperX}

Components == {ScriptComponent(t, c, p) : t \in Kinds, c \in Contents, p \in Positions}

SeqsUpTo(S, n) == UNION {[1..k -> S] : k \in 0..n}

Candidates ==
    {ArxflixScript(t, id, 5, comps) :
        t \in Titles, id \in CandidateIds, comps \in SeqsUpTo(Components, MaxComps)}

---------------------------------------------------------------------------
(* The validator applied to every candidate                                *)

InitV ==
    /\ pc = "candidate"
    /\ values \in Candidates
    /\ paper_id \in ExpectedIds
    /\ vres = NotRun
    /\ IdleReplace
    /\ IdleLinks
    /\ IdlePipeline
    /\ IdleRuns

Validate ==
    /\ pc = "candidate"
    /\ vres' = validate_script_structure(values, paper_id)
    /\ pc' = "validated"
    /\ UNCHANGED <<values, paper_id, vReplace, vLinks, vPipeline>>
    /\ UNCHANGED vRuns

\* f"\\{comp.component_type.strip()}: {comp.content}"
ScriptLine(comp) ==
    <<"\\">> \o Strip(comp.component_type) \o <<":", " ">> \o comp.content

\* '\n'.join(... for comp in script.components)
reconstruct_script(script) ==
    Join([i \in 1..Len(script.components) |-> ScriptLine(script.components[i])],
         <<"\n">>)

\* reconstruct_script applied to the model the validator returned
Serialize ==
    /\ pc = "validated"
    /\ vres.raised = "none"
    /\ result' = <<reconstruct_script([values EXCEPT !.components = vres.components])>>
    /\ pc' = "serialized"
    /\ UNCHANGED <<vValidator, vReplace, vLinks, args, api_key, paper, state,
                   calls, failures, error>>
    /\ UNCHANGED vRuns

NextV == Validate \/ Serialize

SpecV == InitV /\ [][NextV]_vars

---------------------------------------------------------------------------
(* replace_keys_with_values                                                *)

\* A dict is modelled as the sequence of its <<key, value>> items in
\* insertion order (Python dicts keep it).

\* combined_dict.update(d) for one item of d: an existing key keeps its place
\* and takes the new value, a new key goes last
UpdateItem(combined, item) ==
    IF \E i \in 1..Len(combined) : combined[i][1] = item[1]
    THEN [i \in 1..Len(combined) |->
             IF combined[i][1] = item[1] THEN item ELSE combined[i]]
    ELSE Append(combined, item)

RECURSIVE UpdateAll(_, _)
UpdateAll(combined, d) ==
    IF d = <<>> THEN combined
    ELSE UpdateAll(UpdateItem(combined, Head(d)), Tail(d))

RECURSIVE CombineFrom(_, _, _)
CombineFrom(dl, i, combined) ==
    IF i > Len(dl) THEN combined
    ELSE CombineFrom(dl, i + 1, UpdateAll(combined, dl[i]))

\* {k: v for k, v in combined_dict.items() if k and k.strip()}
RECURSIVE FilterKeys(_)
FilterKeys(combined) ==
    IF combined = <<>> THEN <<>>
    ELSE (IF Head(combined)[1] # <<>> /\ Strip(Head(combined)[1]) # <<>>
          THEN <<Head(combined)>>
          ELSE <<>>)
         \o FilterKeys(Tail(combined))

CombinedDict(dl) == FilterKeys(CombineFrom(dl, 1, <<>>))

\* combined_dict.get(k, k)
DictGet(combined, k) ==
    IF \E i \in 1..Len(combined) : combined[i][1] = k
    THEN combined[CHOOSE i \in 1..Len(combined) : combined[i][1] = k][2]
    ELSE k

\* sorted(combined_dict.keys(), key=len, reverse=True): stable, longest first
RECURSIVE InsertByLen(_, _)
InsertByLen(k, s) ==
    IF s = <<>> THEN <<k>>
    ELSE IF Len(s[Len(s)]) >= Len(k) THEN Append(s, k)
    ELSE Append(InsertByLen(k, SubSeq(s, 1, Len(s) - 1)), s[Len(s)])

RECURSIVE SortByLenFrom(_, _, _)
SortByLenFrom(keys, i, acc) ==
    IF i > Len(keys) THEN acc
    ELSE SortByLenFrom(keys, i + 1, InsertByLen(keys[i], acc))

KeysInDictOrder(combined) == [i \in 1..Len(combined) |-> combined[i][1]]

UnsortedKeys(combined) == KeysInDictOrder(combined)

SortedKeys(combined) == SortByLenFrom(KeysInDictOrder(combined), 1, <<>>)

\* pattern.sub(...): scan left to right; at the first position where an
\* alternative matches, the first alternative (in sorted_keys order) that
\* matches there is replaced by its value and the scan resumes after it;
\* the text in between is copied
RECURSIVE SubFrom(_, _, _, _)
SubFrom(t, keys, combined, i) ==
    LET at == {p \in i..Len(t) : \E j \in 1..Len(keys) : MatchAt(t, keys[j], p)}
    IN  IF at = {} THEN SubSeq(t, i, Len(t))
        ELSE LET p == Min(at)
                 j == Min({h \in 1..Len(keys) : MatchAt(t, keys[h], p)})
             IN  SubSeq(t, i, p - 1) \o DictGet(combined, keys[j])
                     \o SubFrom(t, keys, combined, p + Len(keys[j]))

replace_keys_with_values(t, dl) ==
    LET combined_dict == CombinedDict(dl)
    IN  IF combined_dict = <<>> THEN t
        ELSE SubFrom(t, SortedKeys(combined_dict), combined_dict, 1)

---------------------------------------------------------------------------
(* adjust_links                                                            *)

Marker == <<"!", "[", "]", "(">>
CloseBracket == <<"]">>
CloseParen == <<")">>
Ar5iv == <<"a", "r", "5", "i", "v", ".", "l", "a", "b", "s", ".", "a", "r", "x", "i", "v", ".", "o", "r", "g">>
HttpsScheme == <<"h", "t", "t", "p", "s", ":", "/", "/">>
ArxivHtml == <<"h", "t", "t", "p", "s", ":", "/", "/", "a", "r", "x", "i", "v", ".", "o", "r", "g", "/", "h", "t", "m", "l", "/">>
OneSlashArxivHtml == <<"h", "t", "t", "p", "s", ":", "/", "a", "r", "x", "i", "v", ".", "o", "r", "g", "/", "h", "t", "m", "l", "/">>
ParenArxiv == <<"(", "a", "r", "x", "i", "v", ".", "o", "r", "g">>
MarkerArxiv == <<"!", "[", "]", "(", "a", "r", "x", "i", "v", ".", "o", "r", "g">>

WrapKeepingParens(link) == Marker \o link \o CloseParen

Wrap(link) == Marker \o Replace(link, CloseParen, <<>>) \o CloseParen

get_linkParenFirst(link, id) ==
    IF link = <<>> \/ Strip(link) = <<>> THEN link
    ELSE IF Contains(link, ParenArxiv)
    THEN Wrap(Replace(link, MarkerArxiv, ArxivHtml \o id))
    ELSE IF Contains(link, Ar5iv)
    THEN Wrap(Replace(link, Marker, HttpsScheme))
    ELSE Wrap(Replace(link, Marker, ArxivHtml \o id \o <<"/">>))

\* get_link(link, paper_id)
get_link(link, id) ==
    IF link = <<>> \/ Strip(link) = <<>> THEN link
    ELSE IF Contains(link, Ar5iv)
    THEN Wrap(Replace(link, Marker, HttpsScheme))
    ELSE IF Contains(link, OneSlashArxivHtml \o id \o <<"/">>)
    THEN Wrap(Replace(link, Marker, ArxivHtml \o id \o <<"/">>))
    ELSE IF Contains(link, ParenArxiv)
    THEN Wrap(Replace(link, MarkerArxiv, ArxivHtml \o id))
    ELSE Wrap(Replace(link, Marker, ArxivHtml \o id \o <<"/">>))

\* [line for line in text_md.split('\n') if line.strip() and '![](' in line]
RECURSIVE LinesWithImages(_)
LinesWithImages(lines) ==
    IF lines = <<>> THEN <<>>
    ELSE (IF Strip(Head(lines)) # <<>> /\ Contains(Head(lines), Marker)
          THEN <<Head(lines)>>
          ELSE <<>>)
         \o LinesWithImages(Tail(lines))

\* the loop that builds links: one single-item dict per line that changes
RECURSIVE Links(_, _)
Links(lines, id) ==
    IF lines = <<>> THEN <<>>
    ELSE LET line == Head(lines)
             processed_link == get_link(line, id)
         IN  (IF /\ Strip(line) # <<>>
                 /\ Strip(processed_link) # <<>>
                 /\ line # processed_link
              THEN << <<(<<line, processed_link>>)>> >>
              ELSE <<>>)
             \o Links(Tail(lines), id)

adjust_linksEveryLine(md, id) ==
    replace_keys_with_values(md, Links(SplitLines(md), id))

adjust_links(md, id) ==
    replace_keys_with_values(md, Links(LinesWithImages(SplitLines(md)), id))

---------------------------------------------------------------------------
(* The six invariants of the data model, stated on the candidate itself.   *)
(* K reads a component's kind: as written (Exact) or stripped (Stripped).  *)

Exact(t) == t
Stripped(t) == Strip(t)

\* the order of the candidate's components by position, ties in input order:
\* the one permutation of the indices that is ascending and stable
SortOrder(comps) ==
    LET n == Len(comps)
    IN  CHOOSE p \in [1..n -> 1..n] :
            \A i, j \in 1..n :
                i < j => \/ comps[p[i]].position < comps[p[j]].position
                         \/ /\ comps[p[i]].position = comps[p[j]].position
                            /\ p[i] < p[j]

ByPosition(comps) ==
    LET p == SortOrder(comps) IN [i \in 1..Len(comps) |-> comps[p[i]]]

Inv1(v) == v.components # <<>>

Inv2(v) ==
    {v.components[i].position : i \in 1..Len(v.components)}
        = 0..(Len(v.components) - 1)

Inv3(v, K(_)) ==
    v.components # <<>> => K(ByPosition(v.components)[1].component_type) = HEADLINE

Inv4(v, K(_)) ==
    LET s == ByPosition(v.components)
    IN  \A i \in 1..(Len(s) - 1) :
            ~(K(s[i].component_type) = HEADLINE /\ K(s[i + 1].component_type) = HEADLINE)

Inv5(v, id) == id = SentinelId \/ v.paper_id = id

Inv6(v, K(_)) ==
    \A i \in 1..Len(v.components) : K(v.components[i].component_type) \in {HEADLINE, TEXT}

\* the invariants (1..6) the candidate breaks, kinds read stripped as the
\* validator reads them
Broken(v, id) ==
    {k \in 1..6 :
        \/ k = 1 /\ ~Inv1(v)
        \/ k = 2 /\ ~Inv2(v)
        \/ k = 3 /\ ~Inv3(v, Stripped)
        \/ k = 4 /\ ~Inv4(v, Stripped)
        \/ k = 5 /\ ~Inv5(v, id)
        \/ k = 6 /\ ~Inv6(v, Stripped)}

\* the violation list holds a violation attributable to invariant k
Reported(k, errors, id) ==
    \/ k = 1 /\ ErrEmpty \in Range(errors)
    \/ k = 2 /\ ErrPositions \in Range(errors)
    \/ k = 3 /\ ErrStart \in Range(errors)
    \/ k = 4 /\ ErrConsecutive(HEADLINE) \in Range(errors)
    \/ k = 5 /\ ErrPaperId(id) \in Range(errors)
    \/ k = 6 /\ \E e \in Range(errors) : e.msg = ErrKind(<<>>).msg

Ascending(comps) ==
    \A i \in 1..(Len(comps) - 1) : comps[i].position < comps[i + 1].position

SameComponents(a, b) ==
    /\ Len(a) = Len(b)
    /\ \A x \in Range(a) \cup Range(b) :
           Cardinality({i \in 1..Len(a) : a[i] = x})
               = Cardinality({i \in 1..Len(b) : b[i] = x})

---------------------------------------------------------------------------
(* Claims about the validator, checked under SpecV                         *)

\* C1: a candidate whose positions are a permutation of 0..n-1 (n >= 1), that
\* starts (by position) with a Headline, has no two adjacent Headlines, only
\* the kinds Headline and Text, and the expected id (or the expected id is the
\* sentinel) is accepted, and the returned components are the candidate's
\* components in ascending position order; an ordered input keeps its order.
C1_ValidAccepted ==
    (/\ pc = "validated"
     /\ Inv1(values) /\ Inv2(values) /\ Inv3(values, Exact)
     /\ Inv4(values, Exact) /\ Inv5(values, paper_id) /\ Inv6(values, Exact))
    => /\ vres.raised = "none"
       /\ Ascending(vres.components)
       /\ SameComponents(vres.components, values.components)
       /\ (Ascending(values.components) => vres.components = values.components)

\* C1 witness: a valid candidate given out of order was accepted and reordered
C1_Witness ==
    /\ pc = "validated"
    /\ Len(values.components) = 3
    /\ ~Ascending(values.components)
    /\ Inv2(values) /\ Inv3(values, Exact) /\ Inv4(values, Exact)
    /\ Inv5(values, paper_id) /\ Inv6(values, Exact)
    /\ vres.raised = "none"
    /\ vres.components # values.components

\* C2 as claimed: every accepted candidate satisfies the six invariants, with
\* every kind being exactly one of the two legal values.
C2_AcceptedSatisfiesExact ==
    (pc = "validated" /\ vres.raised = "none")
    => /\ Inv1(values) /\ Inv2(values) /\ Inv3(values, Exact)
       /\ Inv4(values, Exact) /\ Inv5(values, paper_id) /\ Inv6(values, Exact)

\* C2 amended: every accepted candidate satisfies the six invariants with each
\* kind read after stripping surrounding whitespace.
C2_AcceptedSatisfiesStripped ==
    (pc = "validated" /\ vres.raised = "none")
    => /\ Inv1(values) /\ Inv2(values) /\ Inv3(values, Stripped)
       /\ Inv4(values, Stripped) /\ Inv5(values, paper_id) /\ Inv6(values, Stripped)

\* C2 witness: an accepted candidate of three components, one of them padded
C2_Witness ==
    /\ pc = "validated"
    /\ vres.raised = "none"
    /\ Len(values.components) = 3
    /\ \E i \in 1..3 : values.components[i].component_type = PaddedHeadline

\* C3: a candidate that breaks several invariants at once is rejected with a
\* violation list that holds a violation for each invariant it breaks.
C3_EveryViolationReported ==
    (pc = "validated" /\ Cardinality(Broken(values, paper_id)) >= 2)
    => /\ vres.raised = "ValueError"
       /\ \A k \in Broken(values, paper_id) : Reported(k, vres.errors, paper_id)

\* C4: a candidate that breaks exactly one invariant is rejected with a
\* non-empty violation list holding the violation for that invariant, and the
\* validator raises nothing but that list (no IndexError on an empty list).
C4_SingleViolationReported ==
    (pc = "validated" /\ Cardinality(Broken(values, paper_id)) = 1)
    => /\ vres.raised = "ValueError"
       /\ vres.errors # <<>>
       /\ \A k \in Broken(values, paper_id) : Reported(k, vres.errors, paper_id)

\* C5: when the expected id is not the sentinel and the candidate's id differs,
\* validation fails with the violation that states the expected id and says to
\* correct it everywhere; under the sentinel no candidate gets that violation.
C5_PaperIdViolation ==
    pc = "validated"
    => /\ (paper_id # SentinelId /\ values.paper_id # paper_id)
            => /\ vres.raised = "ValueError"
               /\ ErrPaperId(paper_id) \in Range(vres.errors)
       /\ paper_id = SentinelId
            => \A e \in Range(vres.errors) : e.msg # ErrPaperId(paper_id).msg

\* C5 witness: a candidate with a wrong id was rejected with the violation
C5_Witness ==
    /\ pc = "validated"
    /\ paper_id = PaperX
    /\ values.paper_id = PaperY
    /\ values.components # <<>>
    /\ vres.raised = "ValueError"
    /\ ErrPaperId(PaperX) \in Range(vres.errors)

---------------------------------------------------------------------------
(* replace_keys_with_values applied to every small text and pair of dicts  *)

MaxTextLen == 4
MaxKeyLen == 3

Letters == {"a", "b"}
Texts == SeqsUpTo(Letters, MaxTextLen)

\* keys: every non-empty string of letters, and two keys the filter drops
Keys == (SeqsUpTo(Letters, MaxKeyLen) \ {<<>>}) \cup {<<>>, <<" ">>}

Value1 == <<"1">>
Value2 == <<"2">>

\* two single-item dicts, as adjust_links builds them
DictLists == {<< <<(<<k1, Value1>>)>>, <<(<<k2, Value2>>)>> >> : k1 \in Keys, k2 \in Keys}

InitR ==
    /\ pc = "text"
    /\ text \in Texts
    /\ dict_list \in DictLists
    /\ modified_text = Unused
    /\ IdleValidator
    /\ IdleLinks
    /\ IdlePipeline
    /\ IdleRuns

ReplaceKeys ==
    /\ pc = "text"
    /\ modified_text' = replace_keys_with_values(text, dict_list)
    /\ pc' = "replaced"
    /\ UNCHANGED <<text, dict_list, vValidator, vLinks, vPipeline>>
    /\ UNCHANGED vRuns

NextR == ReplaceKeys

SpecR == InitR /\ [][NextR]_vars

---------------------------------------------------------------------------
(* adjust_links applied, twice in a row, to every small document           *)

MaxLines == 2

\* '![](foo.png)'
LineFoo == <<"!", "[", "]", "(", "f", "o", "o", ".", "p", "n", "g", ")">>

\* '![](ar5iv.labs.arxiv.org/f)'
LineAr5iv == <<"!", "[", "]", "(", "a", "r", "5", "i", "v", ".", "l", "a", "b", "s", ".", "a", "r", "x", "i", "v", ".", "o", "r", "g", "/", "f", ")">>

\* '![](https:/arxiv.org/html/X/f)'
LineOneSlash == <<"!", "[", "]", "(", "h", "t", "t", "p", "s", ":", "/", "a", "r", "x", "i", "v", ".", "o", "r", "g", "/", "h", "t", "m", "l", "/", "X", "/", "f", ")">>

\* '![](arxiv.org/f)'
LineArxiv == <<"!", "[", "]", "(", "a", "r", "x", "i", "v", ".", "o", "r", "g", "/", "f", ")">>

\* '![](https://arxiv.org/html/X/foo.png)'
LineFooCanonical == <<"!", "[", "]", "(", "h", "t", "t", "p", "s", ":", "/", "/", "a", "r", "x", "i", "v", ".", "o", "r", "g", "/", "h", "t", "m", "l", "/", "X", "/", "f", "o", "o", ".", "p", "n", "g", ")">>

\* 'a ![](foo.png)'
LineTextBefore == <<"a", " ", "!", "[", "]", "(", "f", "o", "o", ".", "p", "n", "g", ")">>

\* '(arxiv.org) ![](f)'
LineParenArxivBefore == <<"(", "a", "r", "x", "i", "v", ".", "o", "r", "g", ")", " ", "!", "[", "]", "(", "f", ")">>

\* '![](f) (b)'
LineParensAfter == <<"!", "[", "]", "(", "f", ")", " ", "(", "b", ")">>

\* '![](https://ar5iv.labs.arxiv.org/f)'
LineAr5ivCanonical == <<"!", "[", "]", "(", "h", "t", "t", "p", "s", ":", "/", "/", "a", "r", "5", "i", "v", ".", "l", "a", "b", "s", ".", "a", "r", "x", "i", "v", ".", "o", "r", "g", "/", "f", ")">>

\* '![](arxiv.org/ar5iv.labs.arxiv.org/f)'
LineArxivAr5iv == <<"!", "[", "]", "(", "a", "r", "x", "i", "v", ".", "o", "r", "g", "/", "a", "r", "5", "i", "v", ".", "l", "a", "b", "s", ".", "a", "r", "x", "i", "v", ".", "o", "r", "g", "/", "f", ")">>

\* '![](arxiv.org/https:/arxiv.org/html/X/f)'
LineArxivOneSlash == <<"!", "[", "]", "(", "a", "r", "x", "i", "v", ".", "o", "r", "g", "/", "h", "t", "t", "p", "s", ":", "/", "a", "r", "x", "i", "v", ".", "o", "r", "g", "/", "h", "t", "m", "l", "/", "X", "/", "f", ")">>

\* ''
LineEmpty == <<>>

\* 'a'
LinePlain == <<"a">>

\* ' '
LineBlank == <<" ">>

DocLines ==
    {LineFoo, LineAr5iv, LineOneSlash,
     LineArxiv, LineFooCanonical, LineTextBefore,
     LineParenArxivBefore, LineParensAfter, LineAr5ivCanonical,
     LineArxivAr5iv, LineArxivOneSlash,
     LineEmpty, LinePlain, LineBlank}

Docs == {Join(ls, <<"\n">>) : ls \in SeqsUpTo(DocLines, MaxLines) \ {<<>>}}

InitL ==
    /\ pc = "document"
    /\ text_md \in Docs
    /\ paper_id = PaperX
    /\ output = Unused /\ output2 = Unused
    /\ values = Unused /\ vres = Unused
    /\ IdleReplace
    /\ IdlePipeline
    /\ IdleRuns

Normalize ==
    /\ pc = "document"
    /\ output' = adjust_links(text_md, paper_id)
    /\ pc' = "normalized"
    /\ UNCHANGED <<text_md, paper_id, output2, values, vres, vReplace, vPipeline>>
    /\ UNCHANGED vRuns

NormalizeAgain ==
    /\ pc = "normalized"
    /\ output2' = adjust_links(output, paper_id)
    /\ pc' = "renormalized"
    /\ UNCHANGED <<text_md, paper_id, output, values, vres, vReplace, vPipeline>>
    /\ UNCHANGED vRuns

NextL == Normalize \/ NormalizeAgain

SpecL == InitL /\ [][NextL]_vars

---------------------------------------------------------------------------
(* Claims about the link normalizer                                        *)

\* C6: normalizing an already normalized document changes nothing:
\* adjust_links(adjust_links(d, id), id) = adjust_links(d, id).
C6_Idempotent == pc = "renormalized" => output2 = output

\* the lines of the document and of the normalized document
InLines == SplitLines(text_md)
OutLines == SplitLines(output)

Normalized == pc \in {"normalized", "renormalized"}

\* a line that is one bare reference '![](<ref>)': the marker, a reference
\* holding no parenthesis, the closing parenthesis
Ref(line) == SubSeq(line, 5, Len(line) - 1)

BareReference(line) ==
    /\ Len(line) > 4
    /\ SubSeq(line, 1, 4) = <<"!", "[", "]", "(">>
    /\ line[Len(line)] = ")"
    /\ ~Contains(Ref(line), <<"(">>)
    /\ ~Contains(Ref(line), <<")">>)

\* the patterns of the three rules before the default
MirrorDomain(line) ==
    Contains(line, <<"a", "r", "5", "i", "v", ".", "l", "a", "b", "s", ".",
                     "a", "r", "x", "i", "v", ".", "o", "r", "g">>)

ScopedPath(line, id) ==
    Contains(line, <<"h", "t", "t", "p", "s", ":", "/", "a", "r", "x", "i",
                     "v", ".", "o", "r", "g", "/", "h", "t", "m", "l", "/">>
                   \o id \o <<"/">>)

ParentheticalDomain(line) ==
    Contains(line, <<"(", "a", "r", "x", "i", "v", ".", "o", "r", "g">>)

\* 'https://arxiv.org/html/<id>': the scoped base path of the subject id
ScopedBase(id) ==
    <<"h", "t", "t", "p", "s", ":", "/", "/", "a", "r", "x", "i", "v", ".",
      "o", "r", "g", "/", "h", "t", "m", "l", "/">> \o id

\* C14: a line that is one bare reference '![](<ref>)' matching none of the
\* mirror-domain, scoped-path and parenthetical-domain patterns comes out as
\* '![](https://arxiv.org/html/<id>/<ref>)': the reference prefixed once with
\* the scoped base path of the subject id.
C14_DefaultRule ==
    Normalized
    => \A i \in 1..Len(InLines) :
          (/\ BareReference(InLines[i])
           /\ ~MirrorDomain(InLines[i])
           /\ ~ScopedPath(InLines[i], paper_id)
           /\ ~ParentheticalDomain(InLines[i]))
          => /\ i <= Len(OutLines)
             /\ OutLines[i] = <<"!", "[", "]", "(">> \o ScopedBase(paper_id)
                                  \o <<"/">> \o Ref(InLines[i]) \o <<")">>

\* C14 witness: '![](foo.png)' after a mirror-domain line came out prefixed
C14_Witness ==
    /\ pc = "normalized"
    /\ InLines = <<LineAr5iv, LineFoo>>
    /\ OutLines[2] = LineFooCanonical

\* a line the normalizer takes up: not blank and holding the marker
HoldsMarker(line) == Contains(line, <<"!", "[", "]", "(">>)

Qualifies(line) == Strip(line) # <<>> /\ HoldsMarker(line)

\* the four correction rules in the order of the claim: what each looks for
RuleMatches(k, line, id) ==
    CASE k = 1 -> MirrorDomain(line)
      [] k = 2 -> ScopedPath(line, id)
      [] k = 3 -> ParentheticalDomain(line)
      [] k = 4 -> TRUE

\* a line with old replaced by new, rebuilt as one reference
Rewritten(line, old, new) ==
    <<"!", "[", "]", "(">> \o Replace(Replace(line, old, new), <<")">>, <<>>) \o <<")">>

\* what each rule makes of the line
RuleOutput(k, line, id) ==
    CASE k = 1 -> Rewritten(line, <<"!", "[", "]", "(">>, <<"h", "t", "t", "p", "s", ":", "/", "/">>)
      [] k = 2 -> Rewritten(line, <<"!", "[", "]", "(">>, ScopedBase(id) \o <<"/">>)
      [] k = 3 -> Rewritten(line, <<"!", "[", "]", "(", "a", "r", "x", "i", "v", ".", "o", "r", "g">>,
                            ScopedBase(id))
      [] k = 4 -> Rewritten(line, <<"!", "[", "]", "(">>, ScopedBase(id) \o <<"/">>)

Rules == 1..4

FirstRule(line, id) == Min({k \in Rules : RuleMatches(k, line, id)})

\* C16: every line the normalizer takes up comes out as the output of the
\* first rule, in the order mirror domain, scoped path, '(arxiv.org' token,
\* default, whose pattern it matches; it never comes out as the different
\* output of a rule further down the order.
C16_RulePriority ==
    Normalized
    => \A i \in 1..Len(InLines) :
          Qualifies(InLines[i])
          => /\ i <= Len(OutLines)
             /\ OutLines[i] = RuleOutput(FirstRule(InLines[i], paper_id), InLines[i], paper_id)
             /\ \A k \in Rules :
                   (/\ k > FirstRule(InLines[i], paper_id)
                    /\ RuleOutput(k, InLines[i], paper_id)
                         # RuleOutput(FirstRule(InLines[i], paper_id), InLines[i], paper_id))
                   => OutLines[i] # RuleOutput(k, InLines[i], paper_id)

\* C16 witness: a line matching the mirror domain and the '(arxiv.org' token
\* came out by the first rule, a line matching the scoped path and the token
\* by the second, each differing from what the third rule makes of it
C16_Witness ==
    /\ pc = "normalized"
    /\ InLines = <<LineArxivAr5iv, LineArxivOneSlash>>
    /\ RuleMatches(1, InLines[1], paper_id) /\ RuleMatches(3, InLines[1], paper_id)
    /\ OutLines[1] = RuleOutput(1, InLines[1], paper_id)
    /\ OutLines[1] # RuleOutput(3, InLines[1], paper_id)
    /\ RuleMatches(2, InLines[2], paper_id) /\ RuleMatches(3, InLines[2], paper_id)
    /\ OutLines[2] = RuleOutput(2, InLines[2], paper_id)
    /\ OutLines[2] # RuleOutput(3, InLines[2], paper_id)

\* C17: normalization keeps the number of lines, leaves every line that does
\* not hold the marker as it was, and returns a document without any marker
\* line unchanged.
C17_Frame ==
    Normalized
    => /\ Len(OutLines) = Len(InLines)
       /\ \A i \in 1..Len(InLines) :
             ~HoldsMarker(InLines[i]) => OutLines[i] = InLines[i]
       /\ (\A i \in 1..Len(InLines) : ~HoldsMarker(InLines[i])) => output = text_md

\* C17 witness: of a plain line followed by a reference only the reference
\* was rewritten
C17_Witness ==
    /\ pc = "normalized"
    /\ InLines = <<LinePlain, LineFoo>>
    /\ OutLines[1] = LinePlain
    /\ OutLines[2] # LineFoo
    /\ Len(OutLines) = 2

\* the number of closing parentheses of a line
ClosingParens(line) == Cardinality({j \in 1..Len(line) : line[j] = ")"})

\* what stands before the first marker of a line
BeforeMarker(line) ==
    SubSeq(line, 1, Min({j \in 1..Len(line) :
                            MatchAt(line, <<"!", "[", "]", "(">>, j)}) - 1)

\* C25: every line holding the marker comes out changed, as one reference:
\* it begins with '![](', ends with ')' and holds no other ')', and what
\* stood before the marker, without its closing parentheses, now stands
\* right after the leading '![](', inside the reference.
C25_MarkerLineBecomesOneReference ==
    Normalized
    => \A i \in 1..Len(InLines) :
          HoldsMarker(InLines[i])
          => /\ i <= Len(OutLines)
             /\ OutLines[i] # InLines[i]
             /\ MatchAt(OutLines[i], <<"!", "[", "]", "(">>, 1)
             /\ OutLines[i][Len(OutLines[i])] = ")"
             /\ ClosingParens(OutLines[i]) = 1
             /\ MatchAt(OutLines[i],
                        Replace(BeforeMarker(InLines[i]), <<")">>, <<>>), 5)

\* C25 witness: '(arxiv.org) ![](f)' and '![](f) (b)' came out as one
\* reference each, the text before the marker of the first inside it
C25_Witness ==
    /\ pc = "normalized"
    /\ InLines = <<LineParenArxivBefore, LineParensAfter>>
    /\ ClosingParens(InLines[1]) = 2 /\ ClosingParens(InLines[2]) = 2
    /\ BeforeMarker(InLines[1]) # <<>>
    /\ ClosingParens(OutLines[1]) = 1 /\ ClosingParens(OutLines[2]) = 1
    /\ MatchAt(OutLines[1], <<"!", "[", "]", "(", "(", "a", "r", "x", "i", "v", ".", "o", "r", "g", " ">>, 1)

---------------------------------------------------------------------------
(* Claims about replace_keys_with_values, checked under SpecR              *)

\* the two entries of dict_list, as <<key, value>>
Entry(n) == dict_list[n][1]

\* a key the filter keeps
ValidKey(k) == k # <<>> /\ Strip(k) # <<>>

\* two mapping entries, the key of the first a proper substring of the
\* second's
ShortAndLong(s, l) ==
    /\ ValidKey(Entry(s)[1]) /\ ValidKey(Entry(l)[1])
    /\ Len(Entry(s)[1]) < Len(Entry(l)[1])
    /\ Contains(Entry(l)[1], Entry(s)[1])

\* the occurrence of key k at index i of text was replaced by value v as a
\* whole: the result is the rewrite of what precedes it, v, and the rewrite
\* of what follows it
ReplacedIntact(i, k, v) ==
    modified_text =
        replace_keys_with_values(SubSeq(text, 1, i - 1), dict_list)
            \o v
            \o replace_keys_with_values(SubSeq(text, i + Len(k), Len(text)), dict_list)

\* an occurrence of the key of one of the entries ns that starts left of
\* index i of text reaches index i
OverlappedFromLeft(i, ns) ==
    \E n \in ns, q \in 1..(i - 1) :
        /\ ValidKey(Entry(n)[1])
        /\ MatchAt(text, Entry(n)[1], q)
        /\ q + Len(Entry(n)[1]) > i

---------------------------------------------------------------------------
(* process_script and _process_script_openrouter                           *)

\* max_retries=2: the attempts create_with_completion makes
\* (instructor runs them under tenacity's stop_after_attempt(max_retries))
max_retries == 2

\* target_duration_minutes: Field(ge=0, le=6)
MinMinutes == 0
MaxMinutes == 6

\* what one attempt ended with: raised is "none" (a validated model),
\* "ValidationError" (pydantic: a field constraint, or the ValueError of
\* validate_script_structure, whose list is errors), "IndexError" (escaping
\* validate_script_structure) or "APIConnectionError" (the transport failed)
Outcome(raised, errors, comps) ==
    [raised |-> raised, errors |-> errors, components |-> comps]

ErrMinutes ==
    [msg |-> "target_duration_minutes: Input should be between 0 and 6", arg |-> <<>>]

TransportError == Outcome("APIConnectionError", <<>>, <<>>)

AcceptAnything(c, id) == Outcome("none", <<>>, c.components)

\* the response_model applied to the backend's candidate: the field
\* constraints, then (mode='after') validate_script_structure
process_response(c, id) ==
    IF c.target_duration_minutes < MinMinutes \/ c.target_duration_minutes > MaxMinutes
    THEN Outcome("ValidationError", <<ErrMinutes>>, c.components)
    ELSE LET r == validate_script_structure(c, id)
         IN  IF r.raised = "ValueError"
             THEN Outcome("ValidationError", r.errors, r.components)
             ELSE r

MessagesAlwaysLinkAware(p, id) ==
    << [role |-> "system", content |-> "SYSTEM_PROMPT"],
       [role |-> "user",
        content |-> [template |-> "Here is the paper I want you to generate a script from, its paper_id is {paper_id} : ",
                     paper_id |-> id, paper |-> p]] >>

\* the messages of the request (lines 621-629)
Messages(p, id) ==
    << [role |-> "system",
        content |-> IF id = SentinelId THEN "SYSTEM_PROMPT_NO_LINK" ELSE "SYSTEM_PROMPT"],
       [role |-> "user",
        content |-> [template |-> "Here is the paper I want you to generate a script from, its paper_id is {paper_id} : ",
                     paper_id |-> id, paper |-> p]] >>

\* on_kwargs: what the hooks keep of the request
Kwargs(p, id) == <<[messages |-> Messages(p, id), temperature |-> "0.1"]>>

\* what instructor adds to the messages before it retries an attempt whose
\* candidate failed validation: the candidate as the assistant's message and
\* a user message with the exception, here its violation list (so the text
\* of line 139 reaches the backend)
ReaskMessages(c, outcome) ==
    << [role |-> "assistant", content |-> c],
       [role |-> "user", content |-> outcome.errors] >>

NoReask(kw, c, outcome) == kw

\* the kwargs of the attempt after a failed one: extended after a
\* ValidationError, the same after any other exception
Reask(kw, c, outcome) ==
    IF outcome.raised = "ValidationError"
    THEN <<[kw[1] EXCEPT !.messages = @ \o ReaskMessages(c, outcome)]>>
    ELSE kw

\* raise ValueError(f"Script generation failed: {e}"), e the last attempt's
\* exception as InstructorRetryException carries it
GenerationFailed(last) ==
    [type |-> "ValueError", msg |-> "Script generation failed: {e}", e |-> last]

NoCause == Outcome("none", <<>>, <<>>)

MissingKeyWrapped == GenerationFailed(NoCause)

MissingKey ==
    [type |-> "ValueError",
     msg |-> "You need to set the OPENROUTER_API_KEY environment variable.",
     e |-> NoCause]

InvalidMethod ==
    [type |-> "ValueError", msg |-> "Invalid method. Please choose 'openai'.",
     e |-> NoCause]

\* the functions process_script calls for these methods are not defined
UndefinedBackend ==
    [type |-> "NameError", msg |-> "name '{function}' is not defined", e |-> NoCause]

UndefinedMethods == {"openai", "local", "gemini", "groq"}

\* tenacity retries on any exception (the default retry condition)
RetryOnlyValidationError(outcome) == outcome.raised = "ValidationError"

Retryable(outcome) == outcome.raised # "none"

\* stop_after_attempt(max_retries), n the attempts made so far
BudgetLeftOffByOne(n) == n <= max_retries

BudgetLeft(n) == n < max_retries

UncorrectedLinks(a) == a.paper_markdown

\* lines 671-675: the text and the id handed on
CorrectedLinks(a) ==
    IF ~a.from_pdf THEN adjust_links(a.paper_markdown, a.paper_id) ELSE a.paper_markdown

EffectiveIdKept(a) == a.paper_id

EffectiveId(a) == IF ~a.from_pdf THEN a.paper_id ELSE SentinelId

\* the candidates the backend answers with
H0 == ScriptComponent(HEADLINE, <<"h">>, 0)
H1 == ScriptComponent(HEADLINE, <<"g">>, 1)
T0 == ScriptComponent(TEXT, <<"a">>, 0)
T1 == ScriptComponent(TEXT, <<"b">>, 1)
P0 == ScriptComponent(PaddedHeadline, <<"h">>, 0)
F1 == ScriptComponent(FIGURE, <<"f">>, 1)
N1 == ScriptComponent(TEXT, <<"a", "\n", "b">>, 1)
E0 == ScriptComponent(HEADLINE, <<>>, 0)
L1 == ScriptComponent(TEXT, LineFoo, 1)

CandGood == ArxflixScript(<<"t">>, PaperX, 5, <<H0, T1>>)
CandUnsorted == ArxflixScript(<<"t">>, PaperX, 5, <<T1, H0>>)
CandPadded == ArxflixScript(<<"t">>, PaperX, 5, <<P0, T1>>)
CandWrongId == ArxflixScript(<<"t">>, PaperY, 5, <<H0, T1>>)
CandEmpty == ArxflixScript(<<"t">>, PaperX, 5, <<>>)
CandTwoHeadlines == ArxflixScript(<<"t">>, PaperX, 5, <<H0, H1>>)
CandTextFirst == ArxflixScript(<<"t">>, PaperX, 5, <<T0>>)
CandFigure == ArxflixScript(<<"t">>, PaperX, 5, <<H0, F1>>)
CandTooLong == ArxflixScript(<<"t">>, PaperX, 7, <<H0, T1>>)
CandNewline == ArxflixScript(<<"t">>, PaperX, 5, <<H0, N1>>)
CandBlank == ArxflixScript(<<>>, PaperX, 5, <<E0, T1>>)
CandLink == ArxflixScript(<<"t">>, PaperX, 5, <<H0, L1>>)

BackendCandidates ==
    {CandGood, CandUnsorted, CandPadded, CandWrongId, CandEmpty,
     CandTwoHeadlines, CandTextFirst, CandFigure, CandTooLong,
     CandNewline, CandBlank, CandLink}

Methods == {"openrouter", "other"} \cup UndefinedMethods
PipelineDocs == {LineFoo, LinePlain}
CallerIds == {PaperX, SentinelId}

InitP ==
    /\ pc = "called"
    /\ args \in [method : Methods, paper_markdown : PipelineDocs,
                 paper_id : CallerIds, from_pdf : BOOLEAN]
    /\ api_key \in BOOLEAN
    /\ paper = <<>>
    /\ paper_id = <<>>
    /\ values = <<>>
    /\ vres = NotRun
    /\ state = [kwargs |-> <<>>, response |-> <<>>]
    /\ calls = 0
    /\ failures = <<>>
    /\ result = <<>>
    /\ error = <<>>
    /\ IdleReplace
    /\ IdleLinks
    /\ IdleRuns

\* process_script up to the dispatch on method
Dispatch ==
    /\ pc = "called"
    /\ paper' = CorrectedLinks(args)
    /\ paper_id' = EffectiveId(args)

Raise(e) ==
    /\ pc' = "raised"
    /\ error' = <<e>>

\* method is one of those whose function is not defined: NameError
ProcessScriptUndefined ==
    /\ Dispatch
    /\ args.method \in UndefinedMethods
    /\ Raise(UndefinedBackend)
    /\ UNCHANGED <<values, vres, vReplace, vLinks, args, api_key, state, calls,
                   failures, result>>
    /\ UNCHANGED vRuns

\* method is none of the known ones: ValueError
ProcessScriptInvalid ==
    /\ Dispatch
    /\ args.method \notin UndefinedMethods \cup {"openrouter"}
    /\ Raise(InvalidMethod)
    /\ UNCHANGED <<values, vres, vReplace, vLinks, args, api_key, state, calls,
                   failures, result>>
    /\ UNCHANGED vRuns

\* _process_script_openrouter without OPENROUTER_API_KEY: ValueError
ProcessScriptNoKey ==
    /\ Dispatch
    /\ args.method = "openrouter"
    /\ ~api_key
    /\ Raise(MissingKey)
    /\ UNCHANGED <<values, vres, vReplace, vLinks, args, api_key, state, calls,
                   failures, result>>
    /\ UNCHANGED vRuns

\* _process_script_openrouter up to the first request of create_with_completion
ProcessScriptRequest ==
    /\ Dispatch
    /\ args.method = "openrouter"
    /\ api_key
    /\ state' = [state EXCEPT !.kwargs = Kwargs(paper', paper_id')]
    /\ calls' = 1
    /\ pc' = "awaiting"
    /\ UNCHANGED <<values, vres, vReplace, vLinks, args, api_key, failures,
                   result, error>>
    /\ UNCHANGED vRuns

StartNextAttempt(outcome) ==
    /\ failures' = failures
    /\ IF BudgetLeft(calls)
       THEN /\ calls' = calls + 1
            /\ pc' = "awaiting"
            /\ error' = error
       ELSE /\ calls' = calls
            /\ Raise(GenerationFailed(outcome))
    /\ result' = result

\* an attempt ended with an exception: the next attempt's request, or, the
\* attempts used up (or the exception not retried), the except clause of
\* _process_script_openrouter
AfterFailure(outcome) ==
    /\ failures' = Append(failures, outcome)
    /\ IF Retryable(outcome) /\ BudgetLeft(calls)
       THEN /\ calls' = calls + 1
            /\ pc' = "awaiting"
            /\ error' = error
       ELSE /\ calls' = calls
            /\ Raise(GenerationFailed(outcome))
    /\ result' = result

\* the backend answers candidate c: on_response, the response_model, then
\* either reconstruct_script and return, or the failure path (on_kwargs of
\* the next attempt, if one is made)
BackendReturns(c) ==
    /\ pc = "awaiting"
    /\ values' = c
    /\ LET outcome == process_response(c, paper_id)
       IN  /\ vres' = outcome
           /\ state' = [response |-> <<c>>,
                        kwargs |-> IF Retryable(outcome) /\ BudgetLeft(calls)
                                   THEN Reask(state.kwargs, c, outcome)
                                   ELSE state.kwargs]
           /\ IF outcome.raised = "none"
              THEN /\ result' = <<reconstruct_script(
                                     [c EXCEPT !.components = outcome.components])>>
                   /\ pc' = "returned"
                   /\ UNCHANGED <<calls, failures, error>>
              ELSE AfterFailure(outcome)
    /\ UNCHANGED <<paper_id, vReplace, vLinks, args, api_key, paper>>
    /\ UNCHANGED vRuns

\* the request fails at the transport level: no response, the failure path
BackendFails ==
    /\ pc = "awaiting"
    /\ AfterFailure(TransportError)
    /\ UNCHANGED <<vValidator, vReplace, vLinks, args, api_key, paper, state>>
    /\ UNCHANGED vRuns

NextP ==
    \/ ProcessScriptUndefined
    \/ ProcessScriptInvalid
    \/ ProcessScriptNoKey
    \/ ProcessScriptRequest
    \/ \E c \in BackendCandidates : BackendReturns(c)
    \/ BackendFails

SpecP == InitP /\ [][NextP]_vars

---------------------------------------------------------------------------
(* Claims about the generation call, checked under SpecP                   *)

\* the attempt failed on the schema: the candidate was rejected
SchemaFailure(f) == f.raised = "ValidationError"

C9_FailedAttemptRetried ==
    [][/\ (pc = "awaiting" /\ Len(failures') = Len(failures) + 1 /\ calls < max_retries)
          => (pc' = "awaiting" /\ calls' = calls + 1 /\ error' = <<>>)
       /\ (pc = "awaiting" /\ pc' = "raised") => calls = max_retries]_vars

\* C9 witness: the second attempt is under way after the first one ended
\* with the IndexError of an empty component list
C9_Witness ==
    /\ pc = "awaiting"
    /\ calls = 2
    /\ Len(failures) = 1
    /\ failures[1].raised = "IndexError"
    /\ values.components = <<>>
    /\ error = <<>>

\* C10: a run ends either returning the text serialized from a candidate that
\* satisfies the schema for the expected id, or raising one error: text is
\* never returned for a candidate that fails validation, never empty or
\* short of a component, and never together with an error.
C10_ValidatedTextOrError ==
    /\ pc = "returned"
       => /\ error = <<>>
          /\ Len(result) = 1
          /\ values.target_duration_minutes \in MinMinutes..MaxMinutes
          /\ Inv1(values) /\ Inv2(values) /\ Inv3(values, Stripped)
          /\ Inv4(values, Stripped) /\ Inv5(values, paper_id) /\ Inv6(values, Stripped)
          /\ result[1] =
                 reconstruct_script([values EXCEPT !.components = ByPosition(values.components)])
          /\ result[1] # <<>>
          /\ \A i \in 1..Len(values.components) :
                 Contains(result[1], ScriptLine(values.components[i]))
    /\ pc = "raised" => (result = <<>> /\ Len(error) = 1)
    /\ pc \notin {"returned", "raised"} => (result = <<>> /\ error = <<>>)

\* C10 witness: the run returned the text of a candidate given out of order,
\* after a first attempt that failed
C10_Witness ==
    /\ pc = "returned"
    /\ Len(failures) = 1
    /\ values = CandUnsorted
    /\ Len(result) = 1
    /\ error = <<>>

---------------------------------------------------------------------------
(* Claims about the serialized script, checked under SpecP                 *)

\* the components the returned text was serialized from, in the order the
\* validator left them
Serialized == ByPosition(values.components)

\* the line format: backslash, kind, colon and space, content
FormatLine(kind, content) == <<"\\">> \o kind \o <<":", " ">> \o content

\* C11: the text returned for a validated script has exactly one line per
\* component, the i-th line being backslash + kind + ': ' + content of the
\* component at position i-1 (the kind without its surrounding whitespace),
\* the lines joined by single newlines with no trailing newline.
C11_OneLinePerComponent ==
    pc = "returned"
    => LET lines == SplitLines(result[1])
       IN  /\ Len(lines) = Len(Serialized)
           /\ \A i \in 1..Len(lines) :
                  /\ Serialized[i].position = i - 1
                  /\ lines[i] = FormatLine(Strip(Serialized[i].component_type),
                                           Serialized[i].content)
           /\ result[1][Len(result[1])] # "\n"

\* reading one line back in the line format: the kind is what stands between
\* the backslash and the first ': ', the content is the rest of the line
Malformed == <<"malformed">>

ParseLine(line) ==
    LET sep == {i \in 2..Len(line) : MatchAt(line, <<":", " ">>, i)}
    IN  IF MatchAt(line, <<"\\">>, 1) /\ sep # {}
        THEN <<SubSeq(line, 2, Min(sep) - 1), SubSeq(line, Min(sep) + 2, Len(line))>>
        ELSE Malformed

ParseScript(t) ==
    LET lines == SplitLines(t) IN [i \in 1..Len(lines) |-> ParseLine(lines[i])]

\* C12: reading the returned text back line by line in the line format gives
\* the (kind, content) pairs of the validated script, in position order (the
\* kind without its surrounding whitespace).
C12_RoundTrip ==
    pc = "returned"
    => ParseScript(result[1]) =
           [i \in 1..Len(Serialized) |->
               <<Strip(Serialized[i].component_type), Serialized[i].content>>]

\* C13: a script that passed validation has a non-empty title and every one
\* of its components has non-empty content.
C13_NonEmptyTitleAndContent ==
    vres.raised = "none"
    => /\ values.title # <<>>
       /\ \A i \in 1..Len(values.components) : values.components[i].content # <<>>

---------------------------------------------------------------------------
(* Claims about the pipeline's steps, checked under SpecP                  *)

\* the text of the user message the hooks saw in the request
SentPaper == state.kwargs[1].messages[2].content.paper

\* C18: without from_pdf, once a request has been made the document handed to
\* the backend is the source document normalized exactly once (not the
\* source, not a second normalization of it), and the text returned is the
\* plain serialization of the validated components, no link in it rewritten.
C18_NormalizeOnceThenSerialize ==
    /\ (~args.from_pdf /\ calls >= 1)
       => /\ paper = adjust_links(args.paper_markdown, args.paper_id)
          /\ SentPaper = paper
    /\ (~args.from_pdf /\ pc = "returned")
       => result[1] = Join([i \in 1..Len(Serialized) |->
                               FormatLine(Strip(Serialized[i].component_type),
                                          Serialized[i].content)],
                           <<"\n">>)

\* C18 witness: '![](foo.png)' went to the backend prefixed once, and the
\* script returned holds the reference the backend wrote, unprefixed
C18_Witness ==
    /\ pc = "returned"
    /\ ~args.from_pdf
    /\ args.paper_markdown = LineFoo
    /\ args.paper_id = PaperX
    /\ SentPaper = LineFooCanonical
    /\ SentPaper # adjust_links(SentPaper, PaperX)
    /\ values = CandLink
    /\ result[1] = FormatLine(HEADLINE, <<"h">>) \o <<"\n">> \o FormatLine(TEXT, LineFoo)

C20_MissingKeyFailsFirst ==
    (args.method = "openrouter" /\ ~api_key /\ pc # "called")
    => /\ pc = "raised"
       /\ Len(error) = 1
       /\ error[1].type = "ValueError"
       /\ error[1].msg = "You need to set the OPENROUTER_API_KEY environment variable."
       /\ error[1].e.raised = "none"
       /\ calls = 0
       /\ failures = <<>>
       /\ state.kwargs = <<>> /\ state.response = <<>>
       /\ result = <<>>

\* C20 witness: the call was made without the key and has raised
C20_Witness ==
    /\ pc = "raised"
    /\ args.method = "openrouter"
    /\ ~api_key
    /\ calls = 0
    /\ error[1].type = "ValueError"

---------------------------------------------------------------------------
(* Two process_script calls running concurrently (method openrouter, the   *)
(* key set, from_pdf false); between the steps of one call the other call  *)
(* may take any number of its own                                          *)

Runs == {1, 2}

\* what each call is given: its own document and its own paper id
RunArgs(r) ==
    [paper_markdown |-> IF r = 1 THEN LinePlain ELSE LineFoo,
     paper_id |-> IF r = 1 THEN PaperX ELSE PaperY]

AllocateShared(heap, obj) == <<obj>>

\* a call of a factory (create_logging_hooks, generate_model_with_context_check)
\* makes a new object; a reference to it is its index among the objects made
Allocate(heap, obj) == Append(heap, obj)

\* state: dict = {"kwargs": None, "response": None}
NewState == [kwargs |-> <<>>, response |-> <<>>]

\* class ArxflixScript, whose validator reads paper_id of the enclosing call
NewModel(id) == [paper_id |-> id]

\* the completion answering the n-th request of call r
Completion(r, n, c) == [request |-> <<r, n>>, candidate |-> c]

ConcurrentCandidates == {CandGood, CandWrongId, CandTextFirst}

InitC ==
    /\ pc = "concurrent"
    /\ models = <<>>
    /\ states = <<>>
    /\ runs = [r \in Runs |->
                 [pc |-> "called", args |-> RunArgs(r), paper |-> <<>>,
                  hooks |-> <<>>, response_model |-> <<>>, calls |-> 0,
                  values |-> <<>>, vres |-> NotRun, result |-> <<>>, error |-> <<>>]]
    /\ IdleValidator
    /\ IdleReplace
    /\ IdleLinks
    /\ IdlePipeline

\* process_script up to the client of _process_script_openrouter:
\* adjust_links, then hooks=create_logging_hooks("openrouter")
CreateHooks(r) ==
    /\ runs[r].pc = "called"
    /\ states' = Allocate(states, NewState)
    /\ runs' = [runs EXCEPT ![r].pc = "client",
                            ![r].paper = adjust_links(runs[r].args.paper_markdown,
                                                      runs[r].args.paper_id),
                            ![r].hooks = <<Len(states')>>]
    /\ UNCHANGED <<pc, models, vValidator, vReplace, vLinks, vPipeline>>

\* response_model=generate_model_with_context_check(paper_id, paper)
CreateModel(r) ==
    /\ runs[r].pc = "client"
    /\ models' = Allocate(models, NewModel(runs[r].args.paper_id))
    /\ runs' = [runs EXCEPT ![r].pc = "model",
                            ![r].response_model = <<Len(models')>>]
    /\ UNCHANGED <<pc, states, vValidator, vReplace, vLinks, vPipeline>>

\* an attempt's request: on_kwargs of the call's hooks
Request(r) ==
    /\ runs[r].pc \in {"model", "retrying"}
    /\ states' = [states EXCEPT ![runs[r].hooks[1]].kwargs =
                        IF runs[r].pc = "model"
                        THEN Kwargs(runs[r].paper, runs[r].args.paper_id)
                        ELSE Reask(@, runs[r].values, runs[r].vres)]
    /\ runs' = [runs EXCEPT ![r].pc = "awaiting", ![r].calls = runs[r].calls + 1]
    /\ UNCHANGED <<pc, models, vValidator, vReplace, vLinks, vPipeline>>

\* the backend answers the request with candidate c: on_response of the
\* call's hooks, the call's response_model, then the text returned, the next
\* attempt, or the generation error
Answer(r, c) ==
    /\ runs[r].pc = "awaiting"
    /\ states' = [states EXCEPT ![runs[r].hooks[1]].response =
                                    <<Completion(r, runs[r].calls, c)>>]
    /\ LET outcome == process_response(c, models[runs[r].response_model[1]].paper_id)
           checked == [runs[r] EXCEPT !.values = c, !.vres = outcome]
       IN  runs' = [runs EXCEPT ![r] =
               IF outcome.raised = "none"
               THEN [checked EXCEPT
                        !.pc = "returned",
                        !.result = <<reconstruct_script(
                                       [c EXCEPT !.components = outcome.components])>>]
               ELSE IF Retryable(outcome) /\ BudgetLeft(runs[r].calls)
               THEN [checked EXCEPT !.pc = "retrying"]
               ELSE [checked EXCEPT !.pc = "raised",
                                    !.error = <<GenerationFailed(outcome)>>]]
    /\ UNCHANGED <<pc, models, vValidator, vReplace, vLinks, vPipeline>>

NextC ==
    \/ \E r \in Runs : CreateHooks(r)
    \/ \E r \in Runs : CreateModel(r)
    \/ \E r \in Runs : Request(r)
    \/ \E r \in Runs, c \in ConcurrentCandidates : Answer(r, c)

SpecC == InitC /\ [][NextC]_vars

---------------------------------------------------------------------------
(* Claims about concurrent calls, checked under SpecC                      *)

\* the id call r was given
OwnId(r) == runs[r].args.paper_id

\* the violations of the last candidate that name an expected paper id
NamedIds(r) ==
    {runs[r].vres.errors[k].arg : k \in 1..Len(runs[r].vres.errors)} \ {<<>>}

\* the state dict of call r's hooks
Diagnostics(r) == states[runs[r].hooks[1]]

\* C15: in every interleaving of two calls given different paper ids, the
\* two calls hold different hooks state dicts and different response models;
\* each call accepts a candidate only under its own id and rejects one under
\* another id naming its own id; and the state dict of a call's hooks holds
\* the request of that call (its document, its id) and the completion
\* answering that call's latest request, never the other call's.
C15_RunsShareNothing ==
    /\ \A r \in Runs : \A q \in Runs \ {r} :
          /\ (runs[r].hooks # <<>> /\ runs[q].hooks # <<>>) => runs[r].hooks # runs[q].hooks
          /\ (runs[r].response_model # <<>> /\ runs[q].response_model # <<>>)
             => runs[r].response_model # runs[q].response_model
    /\ \A r \in Runs :
          /\ runs[r].vres.raised = "none" => runs[r].values.paper_id = OwnId(r)
          /\ (runs[r].values # <<>> /\ runs[r].values.paper_id # OwnId(r))
             => (runs[r].vres.raised = "ValidationError" /\ NamedIds(r) = {OwnId(r)})
          /\ (runs[r].values # <<>> /\ runs[r].values.paper_id = OwnId(r))
             => NamedIds(r) = {}
          /\ runs[r].hooks # <<>>
             => /\ (runs[r].calls = 0) = (Diagnostics(r).kwargs = <<>>)
                /\ Diagnostics(r).kwargs # <<>>
                   => /\ Diagnostics(r).kwargs[1].messages[2].content.paper_id = OwnId(r)
                      /\ Diagnostics(r).kwargs[1].messages[2].content.paper = runs[r].paper
                /\ (runs[r].values = <<>>) = (Diagnostics(r).response = <<>>)
                /\ Diagnostics(r).response # <<>>
                   => /\ Diagnostics(r).response[1].request[1] = r
                      /\ Diagnostics(r).response[1].candidate = runs[r].values

\* C15 witness: the two calls made their hooks and models in opposite order,
\* the first call saw the candidate bearing the second call's id rejected and
\* then its own accepted, the second call had the same candidate accepted
C15_Witness ==
    /\ runs[1].hooks = <<1>> /\ runs[2].hooks = <<2>>
    /\ runs[2].response_model = <<1>> /\ runs[1].response_model = <<2>>
    /\ runs[1].pc = "returned" /\ runs[1].calls = 2 /\ runs[1].values = CandGood
    /\ runs[2].pc = "returned" /\ runs[2].calls = 1 /\ runs[2].values = CandWrongId
    /\ Diagnostics(1).response[1].request = <<1, 2>>
    /\ Diagnostics(2).response[1].request = <<2, 1>>

---------------------------------------------------------------------------
(* Claims about the request and the entry point, checked under SpecP       *)

\* the messages of the latest request, as the hooks saw them
RequestMessages == state.kwargs[1].messages

\* the two messages the call builds: the system instruction, the no-link
\* variant exactly under the sentinel id, then the user message with the id
\* and the text handed to generation (without from_pdf the normalized source)
PromptLeads ==
    /\ Len(RequestMessages) >= 2
    /\ RequestMessages[1].role = "system"
    /\ RequestMessages[1].content =
           (IF paper_id = <<"p", "a", "p", "e", "r", "_", "i", "d">>
            THEN "SYSTEM_PROMPT_NO_LINK" ELSE "SYSTEM_PROMPT")
    /\ RequestMessages[2].role = "user"
    /\ RequestMessages[2].content.paper_id = paper_id
    /\ RequestMessages[2].content.paper = paper
    /\ ~args.from_pdf => paper = adjust_links(args.paper_markdown, args.paper_id)

\* the attempts before the latest request that failed on the schema
SchemaFailuresBefore == {n \in 1..(calls - 1) : SchemaFailure(failures[n])}

C23_FromPdfSkipsLinksAndId ==
    (args.from_pdf /\ pc # "called")
    => /\ paper = args.paper_markdown
       /\ paper_id = <<"p", "a", "p", "e", "r", "_", "i", "d">>
       /\ calls >= 1
          => /\ RequestMessages[1].content = "SYSTEM_PROMPT_NO_LINK"
             /\ RequestMessages[2].content.paper = args.paper_markdown
             /\ RequestMessages[2].content.paper_id = <<"p", "a", "p", "e", "r", "_", "i", "d">>
       /\ \A k \in 1..Len(vres.errors) :
             vres.errors[k].msg
                 # "The paper id is {paper_id}, you wrote a wrong one, correct it everywhere"
       /\ \A n \in 1..Len(failures) : \A k \in 1..Len(failures[n].errors) :
             failures[n].errors[k].msg
                 # "The paper id is {paper_id}, you wrote a wrong one, correct it everywhere"

\* C23 witness: called with id X and a document holding a reference, the run
\* sent the document as it was and returned the script of a candidate
\* bearing the id Y
C23_Witness ==
    /\ pc = "returned"
    /\ args.from_pdf
    /\ args.paper_id = PaperX
    /\ args.paper_markdown = LineFoo
    /\ RequestMessages[2].content.paper = LineFoo
    /\ values = CandWrongId
    /\ Len(result) = 1

\* C24: a call with a method other than 'openrouter' ends with the
\* ValueError "Invalid method. Please choose 'openai'." and makes no request.
C24_OtherMethodInvalid ==
    (args.method # "openrouter" /\ pc # "called")
    => /\ pc = "raised"
       /\ Len(error) = 1
       /\ error[1].type = "ValueError"
       /\ error[1].msg = "Invalid method. Please choose 'openai'."
       /\ calls = 0
       /\ state.kwargs = <<>>
       /\ result = <<>>

---------------------------------------------------------------------------
(* Claims about padded kinds, checked under SpecV                          *)

\* the candidate with every kind stripped of surrounding whitespace
StripKinds(comps) ==
    [i \in 1..Len(comps) |-> [comps[i] EXCEPT !.component_type = Strip(@)]]

Unpadded == [values EXCEPT !.components = StripKinds(@)]

Padded(t) == Strip(t) # t

\* C22: the validator treats a candidate with padded kinds exactly as the
\* same candidate with the kinds unpadded (same acceptance, same violation
\* list, same order of the returned components), and the text serialized
\* from an accepted candidate is the text of the unpadded one: each of its
\* lines starts with '\Headline: ' or '\Text: ', never with a padded kind.
C22_PaddedKindAsUnpadded ==
    /\ pc \in {"validated", "serialized"}
       => LET plain == validate_script_structure(Unpadded, paper_id)
          IN  /\ vres.raised = plain.raised
              /\ vres.errors = plain.errors
              /\ StripKinds(vres.components) = plain.components
    /\ pc = "serialized"
       => /\ result[1] = reconstruct_script(
                             [Unpadded EXCEPT !.components = ByPosition(@)])
          /\ \A i \in 1..Len(SplitLines(result[1])) :
                \/ MatchAt(SplitLines(result[1])[i],
                           <<"\\", "H", "e", "a", "d", "l", "i", "n", "e", ":", " ">>, 1)
                \/ MatchAt(SplitLines(result[1])[i],
                           <<"\\", "T", "e", "x", "t", ":", " ">>, 1)

\* C22 witness: a candidate given out of order whose first component by
\* position has the kind ' Headline ' was accepted and serialized
C22_Witness ==
    /\ pc = "serialized"
    /\ Len(values.components) = 3
    /\ values.components[1].position = 2
    /\ \E i \in 1..3 :
          /\ values.components[i].position = 0
          /\ values.components[i].component_type = <<" ", "H", "e", "a", "d", "l", "i", "n", "e", " ">>
    /\ \E i \in 1..3 : ~Padded(values.components[i].component_type)
    /\ MatchAt(result[1], <<"\\", "H", "e", "a", "d", "l", "i", "n", "e", ":", " ">>, 1)

=============================================================================
